---- MODULE Spec2Model ----
(***************************************************************************)
(* Model of src/excel_converter.py: convert_excel, a linear pipeline over  *)
(* pandas DataFrames (load, filter, reference load, project, join, inject  *)
(* fixed values, reorder, write, auto-open).                               *)
(*                                                                         *)
(* Text values.  TLA+ strings are ASCII, so the Chinese target labels of   *)
(* the source are written in pinyin: XiangHao = item number, ShangPin-     *)
(* BianHao = product code, PinMing = product name, XingHao = model number, *)
(* ShenBaoYaoSu = declaration elements, ShuLiang = quantity, DanWei =      *)
(* unit, DanJia = unit price, ZongJia = total price, BiZhi = currency,     *)
(* YuanChanGuo = country of origin, ZuiZhongMuDiGuo = final destination,   *)
(* JingNeiHuoYuanDi = domestic source, ZhengMian = tax exemption,          *)
(* JingZhong = net weight.                                                 *)
(*                                                                         *)
(* A sheet cell of a workbook file is a text; "" is the empty cell.  A     *)
(* cell of a DataFrame is [t, v]: a str with its text, an int or a float   *)
(* with the decimal digits of its (integral) value, or the float NaN       *)
(* pandas uses for a missing cell.                                         *)
(*                                                                         *)
(* A DataFrame is [columns, index, col]: the column labels in order, the   *)
(* row labels in order and, per column label, the cells in row order.      *)
(***************************************************************************)
EXTENDS Naturals, Sequences, FiniteSets

VARIABLES
  workbook,      \* the input file: [readable, sheets]
  refbook,       \* the reference file: [readable, sheets]
  config,        \* PRESERVED_COLUMNS, MATERIAL_CODE_COLUMN, MATCHED_COLUMNS, FIXED_COLUMNS
  pc,            \* position of convert_excel
  df_input,      \* local df_input
  df_reference,  \* local df_reference
  df_output,     \* local df_output (the accumulator)
  stdout,        \* the warnings and diagnostics printed so far
  outfile,       \* the output file: [exists, header, rows]
  startfile,     \* the auto-open step: "pending", "not_windows", "opened", "raised"
  result,        \* "running", "returned", or the exception that ended the run
  stages         \* the pipeline stages entered so far, in order

vars == <<workbook, refbook, config, pc, df_input, df_reference, df_output,
          stdout, outfile, startfile, result, stages>>

----------------------------------------------------------------------------
(* Values *)

NaN == [t |-> "nan", v |-> ""]
Str(s) == [t |-> "str", v |-> s]
Int(digits) == [t |-> "int", v |-> digits]
Float(digits) == [t |-> "float", v |-> digits]

\* A workbook file: its sheets in order, each a sequence of rows of cells.
Book(sheets) == [readable |-> TRUE, sheets |-> sheets]

\* A file that is missing or cannot be parsed.
Unreadable == [readable |-> FALSE, sheets |-> <<>>]

\* No output file.
Absent == [exists |-> FALSE, header |-> <<>>, rows |-> <<>>]

Range(s) == {s[i] : i \in DOMAIN s}

Min(a, b) == IF a < b THEN a ELSE b

\* Position of the first occurrence of x in s, 0 when absent.
IndexOf(s, x) ==
  IF \E i \in DOMAIN s : s[i] = x
  THEN CHOOSE i \in DOMAIN s : s[i] = x /\ \A j \in 1..(i - 1) : s[j] # x
  ELSE 0

\* str.strip() on the texts of the model.  Every text other than the ones
\* listed has no leading or trailing whitespace and is its own strip.
Strip(s) ==
  CASE s = " "            -> ""
    [] s = " 2 "          -> "2"
    [] s = " NO. "        -> "NO."
    [] s = "DESCRIPTION " -> "DESCRIPTION"
    [] OTHER              -> s

\* astype(str) on one cell: the missing value becomes the text 'nan', a
\* float of integral value v the text 'v.0'.
AsStr(c) ==
  CASE c.t = "nan"   -> "nan"
    [] c.t = "float" -> c.v \o ".0"
    [] OTHER         -> c.v

\* The sheet texts of the model that the parser of read_excel reads as a
\* number (surrounding whitespace allowed); no other text of the model is.
NumericTexts == {"1", " 2 ", "3", "9", "8501", "8502", "9001"}

\* What read_excel makes of the cells of one column: the empty cells are
\* missing; when every other cell is a numeric text the column is numeric,
\* float64 if a cell is missing and int64 if none is; otherwise the texts
\* are kept as they are.
InferColumn(raw) ==
  IF \A i \in DOMAIN raw : raw[i] = "" \/ raw[i] \in NumericTexts
  THEN IF \E i \in DOMAIN raw : raw[i] = ""
       THEN [i \in DOMAIN raw |-> IF raw[i] = "" THEN NaN ELSE Float(Strip(raw[i]))]
       ELSE [i \in DOMAIN raw |-> Int(Strip(raw[i]))]
  ELSE [i \in DOMAIN raw |-> IF raw[i] = "" THEN NaN ELSE Str(raw[i])]

\* Equality and hashing of Python scalars: 1 == 1.0.
PyKey(c) == IF c.t = "int" THEN Float(c.v) ELSE c

\* The dtype of a result holding the given cells: int64 cannot hold a
\* missing value, so integers beside a missing value or a float are floats.
Upcast(cells) ==
  IF /\ \E i \in DOMAIN cells : cells[i].t \in {"nan", "float"}
     /\ \A i \in DOMAIN cells : cells[i].t \in {"nan", "int", "float"}
  THEN [i \in DOMAIN cells |-> IF cells[i].t = "int" THEN Float(cells[i].v) ELSE cells[i]]
  ELSE cells

\* What to_excel makes of a cell: a missing value is an empty cell, a
\* number a numeric cell, a text a text cell.
CellWrite(c) ==
  CASE c.t = "nan"              -> [t |-> "empty", v |-> ""]
    [] c.t \in {"int", "float"} -> [t |-> "num", v |-> c.v]
    [] OTHER                    -> c

----------------------------------------------------------------------------
(* Configuration section of the source *)

COLUMN_MAPPING == <<
  [eng |-> "NO.",         cn |-> "XiangHao"],
  [eng |-> "DESCRIPTION", cn |-> "PinMing"],
  [eng |-> "Model NO.",   cn |-> "XingHao"],
  [eng |-> "Qty",         cn |-> "ShuLiang"],
  [eng |-> "Unit",        cn |-> "DanWei"],
  [eng |-> "Amount",      cn |-> "ZongJia"],
  [eng |-> "net weight",  cn |-> "JingZhong"],
  [eng |-> "Unit Price",  cn |-> "DanJia"] >>

column_order == <<
  "XiangHao", "ShangPinBianHao", "PinMing", "XingHao", "ShenBaoYaoSu",
  "ShuLiang", "DanWei", "DanJia", "ZongJia", "BiZhi", "YuanChanGuo",
  "ZuiZhongMuDiGuo", "JingNeiHuoYuanDi", "ZhengMian", "JingZhong" >>

\* Rows skipped by read_excel(skiprows=9).
SKIPROWS == 9

----------------------------------------------------------------------------
(* DataFrames *)

EmptyFrame == [columns |-> <<>>, index |-> <<>>, col |-> [c \in {} |-> <<>>]]

FrameLen(df) == Len(df.index)

\* DataFrame.empty: some axis has length 0.
FrameEmpty(df) == Len(df.index) = 0 \/ Len(df.columns) = 0

\* RangeIndex(n): the labels 0 .. n-1.
RangeIndex(n) == [i \in 1..n |-> i - 1]

\* The rows of df at the positions listed in keep, labels kept.
TakeRows(df, keep) ==
  [columns |-> df.columns,
   index   |-> [i \in 1..Len(keep) |-> df.index[keep[i]]],
   col     |-> [c \in Range(df.columns) |->
                  [i \in 1..Len(keep) |-> df.col[c][keep[i]]]]]

\* The positions 1..n whose row label is not the given label, in order.
RECURSIVE PositionsWithout(_, _, _)
PositionsWithout(index, label, n) ==
  IF n = 0 THEN <<>>
  ELSE LET rest == PositionsWithout(index, label, n - 1)
       IN  IF index[n] = label THEN rest ELSE Append(rest, n)

\* df.drop(index=label)
Drop(df, label) == TakeRows(df, PositionsWithout(df.index, label, Len(df.index)))

\* df.reset_index(drop=True)
ResetIndex(df) == [df EXCEPT !.index = RangeIndex(Len(df.index))]

\* df.iloc[:n]
ILocHead(df, n) == TakeRows(df, [i \in 1..Min(n, Len(df.index)) |-> i])

\* df[name]: a Series, [index, values].
GetColumn(df, name) == [index |-> df.index, values |-> df.col[name]]

\* The value a Series holds at a row label, NaN when the label is absent
\* (the alignment of an assigned Series to the frame's index).
ValueAt(series, label) ==
  LET p == IndexOf(series.index, label)
  IN  IF p = 0 THEN NaN ELSE series.values[p]

\* df[name] = cells, for cells already in the frame's row order.
PutColumn(df, name, cells) ==
  [columns |-> IF name \in Range(df.columns) THEN df.columns
               ELSE Append(df.columns, name),
   index   |-> df.index,
   col     |-> [c \in Range(df.columns) \cup {name} |->
                  IF c = name THEN cells ELSE df.col[c]]]

\* df[name] = series.  A frame with no rows first takes the index of a
\* non-empty series (its existing columns are filled with NaN); the series
\* is then aligned to the frame's index.
SetColumn(df, name, series) ==
  LET base == IF Len(df.index) = 0 /\ Len(series.index) > 0
              THEN [columns |-> df.columns,
                    index   |-> series.index,
                    col     |-> [c \in Range(df.columns) |->
                                   [i \in 1..Len(series.index) |-> NaN]]]
              ELSE df
  IN  PutColumn(base, name,
                [i \in 1..Len(base.index) |-> ValueAt(series, base.index[i])])

\* Mutation of SetScalar: an existing column is left as it is.
SetScalarIfAbsent(df, name, value) ==
  IF name \in Range(df.columns) THEN df
  ELSE PutColumn(df, name, [i \in 1..Len(df.index) |-> value])

\* df[name] = scalar: one copy per existing row, none in a frame without rows.
SetScalar(df, name, value) ==
  PutColumn(df, name, [i \in 1..Len(df.index) |-> value])

\* Mutation of Reindex: df[[c for c in order if c in df]], the canonical
\* columns the frame has, in order, and no others.
ReindexExisting(df, order) ==
  LET present == SelectSeq(order, LAMBDA c : c \in Range(df.columns))
  IN  [columns |-> present,
       index   |-> df.index,
       col     |-> [c \in Range(present) |-> df.col[c]]]

\* df.reindex(columns=order): exactly the listed columns, in that order; the
\* ones the frame lacks are all NaN.
Reindex(df, order) ==
  [columns |-> order,
   index   |-> df.index,
   col     |-> [c \in Range(order) |->
                  IF c \in Range(df.columns) THEN df.col[c]
                  ELSE [i \in 1..Len(df.index) |-> NaN]]]

\* Row i of a frame as the tuple of its cells in column order.
RowOf(df, i) == [j \in 1..Len(df.columns) |-> df.col[df.columns[j]][i]]

----------------------------------------------------------------------------
(* Load: lines 68-92 *)

\* sheet_to_read: the second sheet of a workbook of two or more, else the first.
SheetToRead(book) == IF Len(book.sheets) >= 2 THEN 1 ELSE 0

\* pd.read_excel(file, skiprows=n, sheet_name=k): the rows after the first n;
\* the first of them is the header, the others are the data, labelled from 0.
\* A sheet with no row left gives DataFrame().
ReadExcel(book, sheet_name, skiprows) ==
  LET sheet == book.sheets[sheet_name + 1]
      body  == SubSeq(sheet, skiprows + 1, Len(sheet))
  IN  IF Len(body) = 0 THEN EmptyFrame
      ELSE LET header == body[1]
               data   == Tail(body)
           IN  [columns |-> header,
                index   |-> RangeIndex(Len(data)),
                col     |-> [c \in Range(header) |->
                               InferColumn([i \in 1..Len(data) |->
                                              data[i][IndexOf(header, c)]])]]

\* Mutation of DropSecondHeader: the first data row is kept.
KeepSecondHeader(df) == df

\* Lines 82-83: drop the row labelled 0 of a non-empty table and relabel.
DropSecondHeader(df) ==
  IF FrameLen(df) > 0 THEN ResetIndex(Drop(df, 0)) ELSE df

\* Lines 86-87: strip the column labels, unless the table is empty.  (The
\* headers of the model stay distinct when stripped.)
StripColumns(df) ==
  IF ~FrameEmpty(df) /\ Len(df.columns) > 0
  THEN [columns |-> [j \in 1..Len(df.columns) |-> Strip(df.columns[j])],
        index   |-> df.index,
        col     |-> [c \in {Strip(x) : x \in Range(df.columns)} |->
                       df.col[CHOOSE x \in Range(df.columns) : Strip(x) = c]]]
  ELSE df

\* Lines 68-92.  The loop of lines 91-92 assigns every column to itself.
LoadInput(book) ==
  StripColumns(DropSecondHeader(ReadExcel(book, SheetToRead(book), SKIPROWS)))

----------------------------------------------------------------------------
(* Filter: lines 96-105 *)

\* The texts line 101 looks for.
EmptyNoTexts == {Str("nan"), Str(""), Str(" ")}

\* The row labels whose cell is in the given set, in row order.
RECURSIVE LabelsWhere(_, _, _, _)
LabelsWhere(index, cells, S, n) ==
  IF n = 0 THEN <<>>
  ELSE LET rest == LabelsWhere(index, cells, S, n - 1)
       IN  IF cells[n] \in S THEN Append(rest, index[n]) ELSE rest

\* Mutation of FilterRows: the first row with an empty item number is kept.
FilterRowsThroughBlank(df) ==
  IF "NO." \in Range(df.columns)
  THEN LET converted == PutColumn(df, "NO.",
                          [i \in 1..FrameLen(df) |-> Str(Strip(AsStr(df.col["NO."][i])))])
           empty_no_index == LabelsWhere(converted.index, converted.col["NO."],
                                         EmptyNoTexts, FrameLen(converted))
       IN  IF Len(empty_no_index) > 0
           THEN ILocHead(converted, empty_no_index[1] + 1)
           ELSE converted
  ELSE df

FilterRows(df) ==
  IF "NO." \in Range(df.columns)
  THEN LET converted == PutColumn(df, "NO.",
                          [i \in 1..FrameLen(df) |-> Str(Strip(AsStr(df.col["NO."][i])))])
           empty_no_index == LabelsWhere(converted.index, converted.col["NO."],
                                         EmptyNoTexts, FrameLen(converted))
       IN  IF Len(empty_no_index) > 0
           THEN ILocHead(converted, empty_no_index[1])
           ELSE converted
  ELSE df

----------------------------------------------------------------------------
(* Project: lines 139-146 *)

Warn(text, col) == [text |-> text, col |-> col]

\* The for/else of lines 140-146: the first pair of COLUMN_MAPPING whose
\* source label is a column of the input and whose target label is col;
\* 0 when the loop ends without a break.
FindSource(col, columns) ==
  IF \E i \in DOMAIN COLUMN_MAPPING :
       COLUMN_MAPPING[i].eng \in Range(columns) /\ COLUMN_MAPPING[i].cn = col
  THEN CHOOSE i \in DOMAIN COLUMN_MAPPING :
         /\ COLUMN_MAPPING[i].eng \in Range(columns) /\ COLUMN_MAPPING[i].cn = col
         /\ \A j \in 1..(i - 1) :
              ~(COLUMN_MAPPING[j].eng \in Range(columns) /\ COLUMN_MAPPING[j].cn = col)
  ELSE 0

\* Mutation of Project: the else belongs to the if, so the warning is also
\* printed for a name found at a later pair of COLUMN_MAPPING.
RECURSIVE ProjectElseOnIf(_, _, _, _)
ProjectElseOnIf(preserved, n, dfin, acc) ==
  IF n = 0 THEN acc
  ELSE LET prev == ProjectElseOnIf(preserved, n - 1, dfin, acc)
           col  == preserved[n]
           k    == FindSource(col, dfin.columns)
       IN  [df  |-> IF k # 0
                    THEN SetColumn(prev.df, col, GetColumn(dfin, COLUMN_MAPPING[k].eng))
                    ELSE prev.df,
            out |-> IF k # 1
                    THEN Append(prev.out, Warn("Column not found in input file", col))
                    ELSE prev.out]

\* The accumulator and the output after the first n preserved names.
RECURSIVE Project(_, _, _, _)
Project(preserved, n, dfin, acc) ==
  IF n = 0 THEN acc
  ELSE LET prev == Project(preserved, n - 1, dfin, acc)
           col  == preserved[n]
           k    == FindSource(col, dfin.columns)
       IN  IF k # 0
           THEN [df  |-> SetColumn(prev.df, col, GetColumn(dfin, COLUMN_MAPPING[k].eng)),
                 out |-> prev.out]
           ELSE [df  |-> prev.df,
                 out |-> Append(prev.out, Warn("Column not found in input file", col))]

----------------------------------------------------------------------------
(* Join: lines 150-177 *)

\* Line 150: the source label mapped to the code column, else the name itself.
MaterialCodeEng(code) ==
  IF \E i \in DOMAIN COLUMN_MAPPING : COLUMN_MAPPING[i].cn = code
  THEN COLUMN_MAPPING[CHOOSE i \in DOMAIN COLUMN_MAPPING :
         /\ COLUMN_MAPPING[i].cn = code
         /\ \A j \in 1..(i - 1) : COLUMN_MAPPING[j].cn # code].eng
  ELSE code

\* Line 154
JoinRuns(dfin, dfref, cfg) ==
  /\ MaterialCodeEng(cfg.MATERIAL_CODE_COLUMN) \in Range(dfin.columns)
  /\ cfg.MATERIAL_CODE_COLUMN \in Range(dfref.columns)

\* Line 163 on a matched column that is the code column itself: set_index
\* moves the code column out of the columns, so selecting it raises KeyError.
JoinKeyError(dfref, cfg) ==
  \E i \in DOMAIN cfg.MATCHED_COLUMNS :
    /\ cfg.MATCHED_COLUMNS[i] \in Range(dfref.columns)
    /\ cfg.MATCHED_COLUMNS[i] = cfg.MATERIAL_CODE_COLUMN

\* Mutation of ToDict: the first value seen for a key is kept.
RECURSIVE ToDictFirstWins(_, _, _)
ToDictFirstWins(keys, vals, n) ==
  IF n = 0 THEN [k \in {} |-> NaN]
  ELSE LET d == ToDictFirstWins(keys, vals, n - 1)
       IN  [k \in DOMAIN d \cup {PyKey(keys[n])} |->
              IF k \in DOMAIN d THEN d[k] ELSE vals[n]]

\* Series.to_dict() of the first n entries: a later key overwrites an earlier one.
RECURSIVE ToDict(_, _, _)
ToDict(keys, vals, n) ==
  IF n = 0 THEN [k \in {} |-> NaN]
  ELSE LET d == ToDict(keys, vals, n - 1)
       IN  [k \in DOMAIN d \cup {PyKey(keys[n])} |->
              IF k = PyKey(keys[n]) THEN vals[n] ELSE d[k]]

\* Line 163
ReferenceDict(dfref, code, col) ==
  ToDict(dfref.col[code], dfref.col[col], FrameLen(dfref))

\* Series.map(dict): NaN for a value that is no key; the result takes the
\* dtype that holds its cells.
MapSeries(series, d) ==
  [index  |-> series.index,
   values |-> Upcast([i \in 1..Len(series.values) |->
                        IF PyKey(series.values[i]) \in DOMAIN d
                        THEN d[PyKey(series.values[i])] ELSE NaN])]

\* Lines 160-165: the warnings of the first loop over the first n matched names.
RECURSIVE MatchWarnings(_, _, _, _)
MatchWarnings(matched, n, dfref, out) ==
  IF n = 0 THEN out
  ELSE LET prev == MatchWarnings(matched, n - 1, dfref, out)
       IN  IF matched[n] \in Range(dfref.columns) THEN prev
           ELSE Append(prev, Warn("Matched column not found in reference file", matched[n]))

\* Lines 168-172: the accumulator after the first n matched names.
RECURSIVE ApplyMatched(_, _, _, _, _, _)
ApplyMatched(matched, n, dfin, dfref, code, acc) ==
  IF n = 0 THEN acc
  ELSE LET prev == ApplyMatched(matched, n - 1, dfin, dfref, code, acc)
           col  == matched[n]
       IN  IF col \in Range(dfref.columns)
           THEN SetColumn(prev, col,
                  MapSeries(GetColumn(dfin, MaterialCodeEng(code)),
                            ReferenceDict(dfref, code, col)))
           ELSE prev

----------------------------------------------------------------------------
(* Inject fixed values: lines 180-182 *)

RECURSIVE InjectFixedColumns(_, _, _)
InjectFixedColumns(fixed, n, df) ==
  IF n = 0 THEN df
  ELSE SetScalar(InjectFixedColumns(fixed, n - 1, df), fixed[n].name, Str(fixed[n].value))

----------------------------------------------------------------------------
(* Write: line 192 *)

\* to_excel(index=False): the column labels, then the rows without labels.
ToExcel(df) ==
  [exists |-> TRUE,
   header |-> df.columns,
   rows   |-> [i \in 1..FrameLen(df) |->
                 [j \in 1..Len(df.columns) |-> CellWrite(RowOf(df, i)[j])]]]

----------------------------------------------------------------------------
(* The files and configurations the runs are checked on *)

MaxDataRows == 2
MaxRefRows == 2

\* All sequences over S of length at most n.
SeqsUpTo(S, n) == UNION {[1..k -> S] : k \in 0..n}

\* Input sheets are three cells wide: a banner of SKIPROWS rows, the header
\* row, the secondary header row, then the data rows.
BannerRow == <<"INVOICE", "No. 7", "">>
UnitRow == <<"", "(name)", "(code)">>

HeaderPlain == <<"NO.", "DESCRIPTION", "Model NO.">>
HeaderPadded == <<" NO. ", "DESCRIPTION ", "MaterialCode">>
HeaderNoItem == <<"Item", "DESCRIPTION", "Model NO.">>
HeaderUnmapped == <<"Item", "Remark", "Part">>

RowA == <<"1", "Widget", "A">>
RowB == <<" 2 ", "Gadget", "B">>
RowBlank == <<"", "Total", "">>
RowSpace == <<" ", "Note", "Z">>
RowZ == <<"3", "Spare", "Z">>

FullSheet(header, rows) ==
  [i \in 1..SKIPROWS |-> BannerRow] \o <<header, UnitRow>> \o rows

Prefixes(sheet) == {SubSeq(sheet, 1, n) : n \in 0..Len(sheet)}

CoverSheet == FullSheet(HeaderPlain, <<<<"9", "Cover", "B">>>>)

\* Reference sheets: the header row, then the data rows.
RefHeaderModel == <<"XingHao", "ShangPinBianHao", "ShenBaoYaoSu">>
RefHeaderDefault == <<"MaterialCode", "ShangPinBianHao", "MatchedColumn1">>
RefHeaderNoCode == <<"Code", "ShangPinBianHao", "ShenBaoYaoSu">>

RefA1 == <<"A", "8501", "motor">>
RefA2 == <<"A", "8502", "pump">>
RefB == <<"B", "9001", "">>

RefBook(header, rows) == Book(<< <<header>> \o rows >>)

Config(preserved, code, matched, fixed) ==
  [PRESERVED_COLUMNS |-> preserved, MATERIAL_CODE_COLUMN |-> code,
   MATCHED_COLUMNS |-> matched, FIXED_COLUMNS |-> fixed]

Fixed(name, value) == [name |-> name, value |-> value]

\* Lines 12, 15, 18 and 21: the configuration without config.py.
DefaultConfig ==
  Config(<<"Column1", "Column2", "Column3">>, "MaterialCode",
         <<"MatchedColumn1", "MatchedColumn2">>,
         <<Fixed("FixedColumn1", "Fixed Value 1"), Fixed("FixedColumn2", "Fixed Value 2")>>)

\* A config.py for the canonical schema.
SchemaConfig ==
  Config(<<"XiangHao", "PinMing", "XingHao">>, "XingHao",
         <<"ShangPinBianHao", "ShenBaoYaoSu">>,
         <<Fixed("BiZhi", "USD"), Fixed("ZhengMian", "1")>>)

PreservedChoices ==
  { DefaultConfig.PRESERVED_COLUMNS, SchemaConfig.PRESERVED_COLUMNS,
    <<"PinMing", "ShangPinBianHao">> }

CodeChoices == {"MaterialCode", "XingHao"}

MatchedChoices ==
  { DefaultConfig.MATCHED_COLUMNS, SchemaConfig.MATCHED_COLUMNS,
    <<"PinMing", "ShangPinBianHao">>, <<"XingHao", "ShangPinBianHao">> }

FixedChoices ==
  { DefaultConfig.FIXED_COLUMNS, SchemaConfig.FIXED_COLUMNS,
    <<Fixed("PinMing", "GOODS"), Fixed("ShangPinBianHao", "0000")>>,
    <<Fixed("YuanChanGuo", "CN")>> }

Configs ==
  {Config(p, c, m, f) : p \in PreservedChoices, c \in CodeChoices,
                        m \in MatchedChoices, f \in FixedChoices}

\* Runs that vary the input workbook: every prefix of every sheet, alone or
\* behind a cover sheet, and the unreadable file.
LoadBooks ==
  LET sheets == UNION {Prefixes(FullSheet(h, rows)) :
                         h \in {HeaderPlain, HeaderPadded, HeaderNoItem},
                         rows \in SeqsUpTo({RowA, RowB, RowBlank, RowSpace}, MaxDataRows)}
  IN  {Book(<<s>>) : s \in sheets} \cup {Book(<<CoverSheet, s>>) : s \in sheets}
        \cup {Unreadable}

InitLoad ==
  /\ workbook \in LoadBooks
  /\ refbook = RefBook(RefHeaderModel, <<RefA1, RefB>>)
  /\ config = SchemaConfig

\* Runs that vary the reference workbook.
JoinBooks ==
  {Book(<<FullSheet(h, rows)>>) : h \in {HeaderPlain, HeaderNoItem},
                            rows \in SeqsUpTo({RowA, RowBlank, RowZ}, MaxDataRows)}

JoinRefs ==
  {RefBook(h, rows) : h \in {RefHeaderModel, RefHeaderNoCode},
                      rows \in SeqsUpTo({RefA1, RefA2, RefB}, MaxRefRows)}
    \cup {Book(<< <<>> >>), Unreadable}

InitJoin ==
  /\ workbook \in JoinBooks
  /\ refbook \in JoinRefs
  /\ config \in {SchemaConfig,
                 Config(<<>>, "XingHao", <<"ShenBaoYaoSu", "MatchedColumn1">>,
                        <<Fixed("BiZhi", "USD")>>)}

\* Runs that vary the configuration.
ConfigBooks ==
  {Book(<<FullSheet(h, rows)>>) : h \in {HeaderPlain, HeaderPadded, HeaderUnmapped},
                            rows \in SeqsUpTo({RowA, RowZ}, MaxDataRows)}

ConfigRefs ==
  { RefBook(RefHeaderModel, <<RefA1, RefA2, RefB>>),
    RefBook(RefHeaderDefault, <<RefA1>>),
    RefBook(RefHeaderNoCode, <<RefA1>>) }

InitConfig ==
  /\ workbook \in ConfigBooks
  /\ refbook \in ConfigRefs
  /\ config \in Configs

----------------------------------------------------------------------------
(* convert_excel *)

StageOrder ==
  <<"Load", "Filter", "Reference-Load", "Project", "Join", "Inject-Fixed",
    "Reorder", "Write">>

Init ==
  /\ InitLoad \/ InitJoin \/ InitConfig
  /\ pc = "start"
  /\ df_input = EmptyFrame
  /\ df_reference = EmptyFrame
  /\ df_output = EmptyFrame
  /\ stdout = <<>>
  /\ outfile = Absent
  /\ startfile = "pending"
  /\ result = "running"
  /\ stages = <<>>

\* An exception leaves convert_excel.
Raise(exception) ==
  /\ pc' = "failed"
  /\ result' = exception

\* Lines 68-92
Load ==
  /\ pc = "start"
  /\ workbook.readable
  /\ stages' = Append(stages, "Load")
  /\ df_input' = LoadInput(workbook)
  /\ pc' = "loaded"
  /\ UNCHANGED <<workbook, refbook, config, df_reference, df_output, stdout,
                 outfile, startfile, result>>

\* Line 68 on a file that cannot be opened or parsed.
LoadFail ==
  /\ pc = "start"
  /\ ~workbook.readable
  /\ stages' = Append(stages, "Load")
  /\ Raise("InputError")
  /\ UNCHANGED <<workbook, refbook, config, df_input, df_reference, df_output,
                 stdout, outfile, startfile>>

\* Lines 96-105
Filter ==
  /\ pc = "loaded"
  /\ stages' = Append(stages, "Filter")
  /\ df_input' = FilterRows(df_input)
  /\ pc' = "filtered"
  /\ UNCHANGED <<workbook, refbook, config, df_reference, df_output, stdout,
                 outfile, startfile, result>>

\* Line 112
RefLoad ==
  /\ pc = "filtered"
  /\ refbook.readable
  /\ stages' = Append(stages, "Reference-Load")
  /\ df_reference' = ReadExcel(refbook, 0, 0)
  /\ pc' = "ref_loaded"
  /\ UNCHANGED <<workbook, refbook, config, df_input, df_output, stdout,
                 outfile, startfile, result>>

\* Mutation of RefLoadFail: the error is swallowed and the run goes on with
\* an empty reference table.
RefLoadFailContinues ==
  /\ pc = "filtered"
  /\ ~refbook.readable
  /\ stages' = Append(stages, "Reference-Load")
  /\ df_reference' = EmptyFrame
  /\ pc' = "ref_loaded"
  /\ UNCHANGED <<workbook, refbook, config, df_input, df_output, stdout,
                 outfile, startfile, result>>

\* Line 112 on a file that cannot be opened or parsed.
RefLoadFail ==
  /\ pc = "filtered"
  /\ ~refbook.readable
  /\ stages' = Append(stages, "Reference-Load")
  /\ Raise("ReferenceError")
  /\ UNCHANGED <<workbook, refbook, config, df_input, df_reference, df_output,
                 stdout, outfile, startfile>>

\* Lines 115 and 139-146
ProjectPreserved ==
  /\ pc = "ref_loaded"
  /\ stages' = Append(stages, "Project")
  /\ LET done == Project(config.PRESERVED_COLUMNS, Len(config.PRESERVED_COLUMNS),
                         df_input, [df |-> EmptyFrame, out |-> stdout])
     IN  /\ df_output' = done.df
         /\ stdout' = done.out
  /\ pc' = "projected"
  /\ UNCHANGED <<workbook, refbook, config, df_input, df_reference, outfile,
                 startfile, result>>

\* Lines 154-172, both code columns present.
Join ==
  /\ pc = "projected"
  /\ JoinRuns(df_input, df_reference, config)
  /\ ~JoinKeyError(df_reference, config)
  /\ stages' = Append(stages, "Join")
  /\ stdout' = MatchWarnings(config.MATCHED_COLUMNS, Len(config.MATCHED_COLUMNS),
                             df_reference, stdout)
  /\ df_output' = ApplyMatched(config.MATCHED_COLUMNS, Len(config.MATCHED_COLUMNS),
                               df_input, df_reference, config.MATERIAL_CODE_COLUMN,
                               df_output)
  /\ pc' = "joined"
  /\ UNCHANGED <<workbook, refbook, config, df_input, df_reference, outfile,
                 startfile, result>>

\* Lines 154-163, line 163 raising KeyError at the first matched name that
\* is the code column; the warnings of the names before it are printed.
JoinRaise ==
  /\ pc = "projected"
  /\ JoinRuns(df_input, df_reference, config)
  /\ JoinKeyError(df_reference, config)
  /\ stages' = Append(stages, "Join")
  /\ stdout' = MatchWarnings(config.MATCHED_COLUMNS,
                             IndexOf(config.MATCHED_COLUMNS, config.MATERIAL_CODE_COLUMN) - 1,
                             df_reference, stdout)
  /\ Raise("KeyError")
  /\ UNCHANGED <<workbook, refbook, config, df_input, df_reference, df_output,
                 outfile, startfile>>

\* Mutation of JoinSkip: the matched columns are created blank.
RECURSIVE BlankColumns(_, _, _)
BlankColumns(names, n, df) ==
  IF n = 0 THEN df ELSE SetScalar(BlankColumns(names, n - 1, df), names[n], Str(""))

JoinSkipBlanks ==
  /\ pc = "projected"
  /\ ~JoinRuns(df_input, df_reference, config)
  /\ stages' = Append(stages, "Join")
  /\ stdout' = Append(stdout, Warn("Material code column not found in one of the files", ""))
  /\ df_output' = BlankColumns(config.MATCHED_COLUMNS, Len(config.MATCHED_COLUMNS), df_output)
  /\ pc' = "joined"
  /\ UNCHANGED <<workbook, refbook, config, df_input, df_reference,
                 outfile, startfile, result>>

\* Lines 173-177, a code column missing.
JoinSkip ==
  /\ pc = "projected"
  /\ ~JoinRuns(df_input, df_reference, config)
  /\ stages' = Append(stages, "Join")
  /\ stdout' = Append(stdout, Warn("Material code column not found in one of the files", ""))
  /\ pc' = "joined"
  /\ UNCHANGED <<workbook, refbook, config, df_input, df_reference, df_output,
                 outfile, startfile, result>>

\* Lines 180-182
InjectFixed ==
  /\ pc = "joined"
  /\ stages' = Append(stages, "Inject-Fixed")
  /\ df_output' = InjectFixedColumns(config.FIXED_COLUMNS, Len(config.FIXED_COLUMNS),
                                     df_output)
  /\ pc' = "injected"
  /\ UNCHANGED <<workbook, refbook, config, df_input, df_reference, stdout,
                 outfile, startfile, result>>

\* Line 187
Reorder ==
  /\ pc = "injected"
  /\ stages' = Append(stages, "Reorder")
  /\ df_output' = Reindex(df_output, column_order)
  /\ pc' = "reordered"
  /\ UNCHANGED <<workbook, refbook, config, df_input, df_reference, stdout,
                 outfile, startfile, result>>

\* Line 192
Write ==
  /\ pc = "reordered"
  /\ stages' = Append(stages, "Write")
  /\ outfile' = ToExcel(df_output)
  /\ pc' = "written"
  /\ UNCHANGED <<workbook, refbook, config, df_input, df_reference, df_output,
                 stdout, startfile, result>>

\* Line 192 on an output path that cannot be written.
WriteFail ==
  /\ pc = "reordered"
  /\ stages' = Append(stages, "Write")
  /\ Raise("OutputError")
  /\ UNCHANGED <<workbook, refbook, config, df_input, df_reference, df_output,
                 stdout, outfile, startfile>>

\* Lines 197-201 where os.name is not 'nt'.
ReturnNotWindows ==
  /\ pc = "written"
  /\ startfile' = "not_windows"
  /\ pc' = "done"
  /\ result' = "returned"
  /\ UNCHANGED <<workbook, refbook, config, df_input, df_reference, df_output,
                 stdout, outfile, stages>>

\* Lines 197-201 on Windows, os.startfile succeeding.
ReturnOpened ==
  /\ pc = "written"
  /\ startfile' = "opened"
  /\ pc' = "done"
  /\ result' = "returned"
  /\ UNCHANGED <<workbook, refbook, config, df_input, df_reference, df_output,
                 stdout, outfile, stages>>

\* Line 198 on Windows, os.startfile raising OSError (no application is
\* associated with the file, or it cannot be launched): nothing catches it.
StartfileRaise ==
  /\ pc = "written"
  /\ startfile' = "raised"
  /\ Raise("OSError")
  /\ UNCHANGED <<workbook, refbook, config, df_input, df_reference, df_output,
                 stdout, outfile, stages>>

Next ==
  \/ Load
  \/ LoadFail
  \/ Filter
  \/ RefLoad
  \/ RefLoadFail
  \/ ProjectPreserved
  \/ Join
  \/ JoinRaise
  \/ JoinSkip
  \/ InjectFixed
  \/ Reorder
  \/ Write
  \/ WriteFail
  \/ ReturnNotWindows
  \/ ReturnOpened
  \/ StartfileRaise

Spec == Init /\ [][Next]_vars

----------------------------------------------------------------------------
(* Vocabulary of the properties *)

Canonical == Range(column_order)
Preserved == Range(config.PRESERVED_COLUMNS)
Matched == Range(config.MATCHED_COLUMNS)
FixedNames == {config.FIXED_COLUMNS[i].name : i \in DOMAIN config.FIXED_COLUMNS}

AllNull(cells) == \A i \in DOMAIN cells : cells[i] = NaN

\* The stage has been entered.
Entered(stage) == stage \in Range(stages)

\* df_output is the reordered table (it is not assigned after line 187).
Reordered == Entered("Reorder")

\* Some source column present in the input maps to the target name.
Found(name) ==
  \E i \in DOMAIN COLUMN_MAPPING :
    COLUMN_MAPPING[i].cn = name /\ COLUMN_MAPPING[i].eng \in Range(df_input.columns)

\* The source column that maps to a found target name (targets are distinct).
SourceOf(name) ==
  COLUMN_MAPPING[CHOOSE i \in DOMAIN COLUMN_MAPPING :
    COLUMN_MAPPING[i].cn = name /\ COLUMN_MAPPING[i].eng \in Range(df_input.columns)].eng

\* The source code column is in the input and the reference code column is
\* in the reference table.
CodeColumnsPresent ==
  /\ MaterialCodeEng(config.MATERIAL_CODE_COLUMN) \in Range(df_input.columns)
  /\ config.MATERIAL_CODE_COLUMN \in Range(df_reference.columns)

\* The join writes the matched name.
JoinWrites(name) ==
  CodeColumnsPresent /\ name \in Matched /\ name \in Range(df_reference.columns)

\* Some step populated the name.
Populated(name) ==
  \/ name \in Preserved /\ Found(name)
  \/ JoinWrites(name)
  \/ name \in FixedNames

MaxOf(S) == CHOOSE x \in S : \A y \in S : y <= x

\* The sheet the loader selects.
SelectedSheet == workbook.sheets[IF Len(workbook.sheets) >= 2 THEN 2 ELSE 1]

NotFoundWarning(name) == [text |-> "Column not found in input file", col |-> name]
SkipDiagnostic == [text |-> "Material code column not found in one of the files", col |-> ""]

----------------------------------------------------------------------------
(* Properties *)

\* C1: once reordered, the output table's columns are exactly the 15
\* canonical names in order (so every accumulator column outside the list is
\* gone), every canonical name no step populated is all null, and the
\* written file has the same header.
C1_CanonicalShape ==
  Reordered =>
    /\ df_output.columns = column_order
    /\ DOMAIN df_output.col = Canonical
    /\ \A c \in Canonical :
         /\ Len(df_output.col[c]) = FrameLen(df_output)
         /\ ~Populated(c) => AllNull(df_output.col[c])
    /\ outfile.exists => outfile.header = column_order
    /\ pc = "done" => outfile = ToExcel(df_output)

\* C1 witness: a finished run with rows, a fixed column outside the
\* canonical list, a populated canonical column and an unpopulated one.
C1_Witness ==
  /\ pc = "done"
  /\ FrameLen(df_output) >= 1
  /\ \E n \in FixedNames : n \notin Canonical
  /\ \E c \in Canonical : Populated(c)
  /\ \E c \in Canonical : ~Populated(c)

\* The cell the reference table gives for a code value in a column: the
\* value of the last reference row with that key, null when no row has it.
\* Values are compared as Python compares them (8501 == 8501.0).
Lookup(code_value, column) ==
  LET hits == {j \in 1..FrameLen(df_reference) :
                 PyKey(df_reference.col[config.MATERIAL_CODE_COLUMN][j]) = PyKey(code_value)}
  IN  IF hits = {} THEN NaN ELSE df_reference.col[column][MaxOf(hits)]

\* C2 as stated: once the join stage was entered with both code columns
\* present, every matched column of the reference table is a column of the
\* accumulator and holds, in each retained source row, the reference value
\* of the last reference row with the row's code, or null when the code is
\* no key of the reference table.
C2_AsStated ==
  (Entered("Join") /\ ~Entered("Inject-Fixed") /\ CodeColumnsPresent) =>
    \A m \in Matched :
      m \in Range(df_reference.columns) =>
        /\ m \in Range(df_output.columns)
        /\ Len(df_output.col[m]) = FrameLen(df_input)
        /\ \A i \in 1..FrameLen(df_input) :
             PyKey(df_output.col[m][i]) =
               PyKey(Lookup(df_input.col[MaterialCodeEng(config.MATERIAL_CODE_COLUMN)][i], m))

\* C2 on the runs whose join completes: right after the join, with both code columns present, every matched
\* column of the reference table holds, in each retained source row, the
\* reference value of the last reference row with the row's code, or null
\* when the code is no key of the reference table.
C2_JoinCorrect ==
  (pc = "joined" /\ CodeColumnsPresent) =>
    \A m \in Matched :
      m \in Range(df_reference.columns) =>
        /\ m \in Range(df_output.columns)
        /\ Len(df_output.col[m]) = FrameLen(df_input)
        /\ \A i \in 1..FrameLen(df_input) :
             PyKey(df_output.col[m][i]) =
               PyKey(Lookup(df_input.col[MaterialCodeEng(config.MATERIAL_CODE_COLUMN)][i], m))

\* C2 witness: the join ran on a row whose code has two reference rows with
\* different values and on a row whose code is no key.
C2_Witness ==
  /\ pc = "joined"
  /\ CodeColumnsPresent
  /\ \E m \in Matched :
       /\ m \in Range(df_reference.columns)
       /\ \E i \in 1..FrameLen(df_input), j1, j2 \in 1..FrameLen(df_reference) :
            LET k == df_input.col[MaterialCodeEng(config.MATERIAL_CODE_COLUMN)][i]
            IN  /\ j1 < j2
                /\ df_reference.col[config.MATERIAL_CODE_COLUMN][j1] = k
                /\ df_reference.col[config.MATERIAL_CODE_COLUMN][j2] = k
                /\ df_reference.col[m][j1] # df_reference.col[m][j2]
       /\ \E i \in 1..FrameLen(df_input) :
            \A j \in 1..FrameLen(df_reference) :
              df_reference.col[config.MATERIAL_CODE_COLUMN][j] #
                df_input.col[MaterialCodeEng(config.MATERIAL_CODE_COLUMN)][i]

\* C3: right after fixed-value injection, every fixed column is a column of
\* the accumulator and holds its constant in every row, whatever projection
\* or the join wrote under that name.
C3_FixedOverwrite ==
  pc = "injected" =>
    \A i \in DOMAIN config.FIXED_COLUMNS :
      LET f == config.FIXED_COLUMNS[i]
      IN  /\ f.name \in Range(df_output.columns)
          /\ Len(df_output.col[f.name]) = FrameLen(df_output)
          /\ \A r \in 1..FrameLen(df_output) : df_output.col[f.name][r] = Str(f.value)

\* C3 witness: injection ran over rows where one fixed name had been written
\* by projection and another by the join.
C3_Witness ==
  /\ pc = "injected"
  /\ FrameLen(df_output) >= 1
  /\ \E n \in FixedNames : n \in Preserved /\ Found(n)
  /\ \E n \in FixedNames : JoinWrites(n)

\* Item-number text: converted to text and trimmed.
NoText(v) == Strip(AsStr(v))

\* The filtered table the truncation rule gives for a loaded table.
Truncation(before, after) ==
  IF "NO." \in Range(before.columns)
  THEN LET blank == {i \in 1..FrameLen(before) :
                       NoText(before.col["NO."][i]) \in {"", "nan"}}
           n == IF blank = {} THEN FrameLen(before)
                ELSE (CHOOSE i \in blank : \A j \in blank : i <= j) - 1
       IN  /\ after.columns = before.columns
           /\ after.index = SubSeq(before.index, 1, n)
           /\ \A c \in Range(before.columns) :
                after.col[c] =
                  IF c = "NO."
                  THEN [i \in 1..n |-> Str(NoText(before.col[c][i]))]
                  ELSE SubSeq(before.col[c], 1, n)
  ELSE after = before

\* C4: the filter step turns the loaded table into the rows strictly before
\* the first row whose item-number text is empty or 'nan' (the whole table
\* when there is none), in order; without a 'NO.' column it removes nothing.
C4_Truncation ==
  [][(pc = "loaded" /\ pc' = "filtered") => Truncation(df_input, df_input')]_vars

\* C4 witness: a filtered table with an item-number column that kept a row
\* and lost one.
C4_Witness ==
  /\ pc = "filtered"
  /\ "NO." \in Range(df_input.columns)
  /\ FrameLen(df_input) >= 1
  /\ Len(SelectedSheet) - 11 > FrameLen(df_input)

\* C5 as stated: every preserved name is a column of the final output,
\* holding the mapped source values when a present source column maps to it
\* and all null otherwise, with a warning exactly in the latter case.
C5_AsStated ==
  Reordered =>
    \A p \in Preserved :
      /\ p \in Range(df_output.columns)
      /\ Found(p) => df_output.col[p] = df_input.col[SourceOf(p)]
      /\ ~Found(p) => AllNull(df_output.col[p])
      /\ (\E i \in DOMAIN stdout : stdout[i] = NotFoundWarning(p)) <=> ~Found(p)

\* C5 amended: a preserved name is a column of the final output exactly when
\* it is canonical; unless it is also a fixed column or a matched column the
\* join writes, that column holds the mapped source values when a present
\* source column maps to the name and is all null otherwise; the warning is
\* emitted exactly when no present source column maps to the name.
C5_ProjectionComplete ==
  Reordered =>
    \A p \in Preserved :
      /\ (\E i \in DOMAIN stdout : stdout[i] = NotFoundWarning(p)) <=> ~Found(p)
      /\ p \in Range(df_output.columns) <=> p \in Canonical
      /\ (p \in Canonical /\ p \notin FixedNames /\ ~JoinWrites(p)) =>
           /\ Found(p) => df_output.col[p] = df_input.col[SourceOf(p)]
           /\ ~Found(p) => AllNull(df_output.col[p])

\* C5 witness: a final table with rows where one preserved name was found
\* and another, canonical too, was not.
C5_Witness ==
  /\ Reordered
  /\ FrameLen(df_output) >= 1
  /\ \E p \in Preserved :
       p \in Canonical /\ p \notin FixedNames /\ ~JoinWrites(p) /\ Found(p)
  /\ \E p \in Preserved :
       p \in Canonical /\ p \notin FixedNames /\ ~JoinWrites(p) /\ ~Found(p)

\* What holds of every run that skips the join.
JoinSkippedCleanly ==
  /\ result # "KeyError"
  /\ \E i \in DOMAIN stdout : stdout[i] = SkipDiagnostic
  /\ pc = "joined" =>
       \A c \in Range(df_output.columns) :
         /\ c \in Preserved /\ Found(c)
         /\ df_output.col[c] = df_input.col[SourceOf(c)]

\* C6 as stated: with a code column missing the join is skipped as a whole
\* and every canonical matched name that is not a fixed column is all null
\* in the output.
C6_AsStated ==
  (Entered("Join") /\ ~CodeColumnsPresent) =>
    /\ JoinSkippedCleanly
    /\ Reordered =>
         \A m \in Matched :
           (m \in Canonical /\ m \notin FixedNames) => AllNull(df_output.col[m])

\* C6 amended: with a code column missing the join writes nothing, emits
\* its diagnostic and does not fail, and every canonical matched name that
\* is neither a fixed column nor a preserved name projection populated is
\* all null in the output.
C6_JoinSkipped ==
  (Entered("Join") /\ ~CodeColumnsPresent) =>
    /\ JoinSkippedCleanly
    /\ Reordered =>
         \A m \in Matched :
           (m \in Canonical /\ m \notin FixedNames /\ ~(m \in Preserved /\ Found(m)))
             => AllNull(df_output.col[m])

\* C6 witness: a finished run with rows that skipped the join although the
\* reference table has a canonical matched column nothing else populated.
C6_Witness ==
  /\ pc = "done"
  /\ ~CodeColumnsPresent
  /\ FrameLen(df_output) >= 1
  /\ \E m \in Matched :
       /\ m \in Canonical /\ m \notin FixedNames /\ ~(m \in Preserved /\ Found(m))
       /\ m \in Range(df_reference.columns)

\* C7 as stated: a run that wrote the output file ends in success, whatever
\* the auto-open step does.
C7_AutoOpenNeverFatal ==
  (outfile.exists /\ pc \in {"done", "failed"}) => result = "returned"

\* C8: the stages entered are a prefix of the fixed order (each at most
\* once, none revisited), a finished run entered them all, and a run whose
\* input or reference file is unreadable stops in the failed state at that
\* load, never enters Write and writes no file.
C8_LinearPipeline ==
  /\ Len(stages) <= Len(StageOrder)
  /\ stages = SubSeq(StageOrder, 1, Len(stages))
  /\ pc = "done" => stages = StageOrder
  /\ ~workbook.readable =>
       /\ pc \in {"start", "failed"}
       /\ ~Entered("Write") /\ ~outfile.exists
  /\ ~refbook.readable =>
       /\ pc \in {"start", "loaded", "filtered", "failed"}
       /\ ~Entered("Write") /\ ~outfile.exists

\* C8 witness: a run aborted by the reference load.
C8_Witness ==
  /\ pc = "failed"
  /\ ~refbook.readable
  /\ stages = <<"Load", "Filter", "Reference-Load">>

\* The table cell is what the loader reads from the sheet cell: missing for
\* the empty cell, else the text itself or the number the text denotes.
ReadFrom(cell, raw) ==
  \/ raw = "" /\ cell = NaN
  \/ raw # "" /\ cell = Str(raw)
  \/ raw # "" /\ cell.t \in {"int", "float"} /\ cell.v = Strip(raw)

\* C9: the loaded table holds exactly the sheet rows after the first 9, the
\* header row and the first data row, in order and labelled from 0; it is
\* empty when the sheet has no data row after the skip.
C9_RowSkip ==
  pc = "loaded" =>
    LET sheet == SelectedSheet
        m == IF Len(sheet) > 9 + 2 THEN Len(sheet) - (9 + 2) ELSE 0
    IN  /\ df_input.index = [i \in 1..m |-> i - 1]
        /\ \A i \in 1..m :
             /\ Len(RowOf(df_input, i)) = Len(sheet[9 + 2 + i])
             /\ \A j \in 1..Len(sheet[9 + 2 + i]) :
                  ReadFrom(RowOf(df_input, i)[j], sheet[9 + 2 + i][j])

\* C9 witness: the second sheet of a workbook was loaded with two data rows
\* left after the skip and the drop.
C9_Witness ==
  /\ pc = "loaded"
  /\ Len(workbook.sheets) = 2
  /\ FrameLen(df_input) = 2

\* C10 as stated: the output table has one row per row of the filtered
\* input table, in the same order.
C10_RowPerInputRow ==
  Reordered => df_output.index = df_input.index

====
